---- MODULE Spec2Model ----
(***************************************************************************)
(* FrequencySketch<T> (frequency_sketch.h): a count-min sketch of 4-bit    *)
(* counters packed sixteen to a 64-bit block.                              *)
(*                                                                         *)
(* A 64-bit word is modelled as its sixteen 4-bit digits, digit 0 being    *)
(* the least significant; shifts, additions, multiplications and masks are *)
(* computed digit by digit with the carries and the bits that cross digit  *)
(* boundaries, so that one packed counter can disturb its neighbour in the *)
(* model exactly when it can in the code.  `long` is taken to be 64 bits   *)
(* wide (LP64), as the literals 0xfL and 1L shifted by up to 60 require.   *)
(* An element is modelled by its 32-bit hash (detail::get_hash is total    *)
(* and deterministic).                                                     *)
(***************************************************************************)
EXTENDS Integers, Sequences, FiniteSets, TLC

\* ------------------------------------------------------------------ bounds
\* capacities handed to the constructor and to change_capacity: -1..MaxCapacity
MaxCapacity == 3
\* record_access calls explored on one sketch
MaxCalls == 21
\* a successful change_capacity is explored on a sketch that has seen at most
\* this many record_access calls
MaxCallsBeforeResize == 1
\* the per-element call tally (a history variable) stops counting here
MaxRecorded == 16

\* the addressing of the counters is explored on sketches constructed with a
\* capacity of 1..MaxAddrCapacity, for the hashes 0..MaxAddrHash and as many
\* hashes from 2^31 - 1 downwards
MaxAddrCapacity == 8
MaxAddrHash == 23

\* the hashes of the elements that are recorded and queried: with two blocks,
\* 0 addresses block 0 four times and 8 addresses blocks 0, 1, 1, 0, both in
\* the lowest 16-bit part, so that they share two of their four counters
Hashes == {0, 8}
Capacities == -1..MaxCapacity

\* ------------------------------------------------------- 64-bit arithmetic
\* a word is the tuple of its sixteen 4-bit digits; w[k + 1] is digit k
Digits == 0..15
Pow2(n) == 2 ^ n
Min(a, b) == IF a <= b THEN a ELSE b

\* the word whose digit k is F(k)
MkWord(F(_)) ==
    << F(0), F(1), F(2), F(3), F(4), F(5), F(6), F(7),
       F(8), F(9), F(10), F(11), F(12), F(13), F(14), F(15) >>

\* digit k of word w, 0 outside the word
Digit(w, k) == IF k \in Digits THEN w[k + 1] ELSE 0

U64Zero == MkWord(LAMBDA k : 0)
\* the literals 1L, 0xfL and 0x7777777777777777L
U64One == <<1, 0, 0, 0, 0, 0, 0, 0, 0, 0, 0, 0, 0, 0, 0, 0>>
U64Fifteen == <<15, 0, 0, 0, 0, 0, 0, 0, 0, 0, 0, 0, 0, 0, 0, 0>>
U64Sevens == MkWord(LAMBDA k : 7)
\* the word of a natural number below 2^31
U64FromNat(n) == MkWord(LAMBDA k : IF k <= 7 THEN (n \div (16 ^ k)) % 16 ELSE 0)
\* a word from its hexadecimal digits, most significant first
U64FromHex(hex) == MkWord(LAMBDA k : hex[16 - k])
\* the value of the low 28 bits of a word
U64ToInt(w) == w[1] + 16 * w[2] + 256 * w[3] + 4096 * w[4]
               + 65536 * w[5] + 1048576 * w[6] + 16777216 * w[7]

\* w >> n on 64 bits
U64Shr(w, n) ==
    LET q == n \div 4
        r == n % 4
    IN  MkWord(LAMBDA k :
            ((Digit(w, k + q) \div Pow2(r)) + Digit(w, k + q + 1) * Pow2(4 - r)) % 16)

\* w << n on 64 bits
U64Shl(w, n) ==
    LET q == n \div 4
        r == n % 4
    IN  MkWord(LAMBDA k :
            (Digit(w, k - q) * Pow2(r) + (Digit(w, k - q - 1) \div Pow2(4 - r))) % 16)

\* bitwise and of two 4-bit digits, bit by bit
RECURSIVE DigitAndFrom(_, _, _)
DigitAndFrom(a, b, j) ==
    IF j > 3 THEN 0
    ELSE Pow2(j) * (((a \div Pow2(j)) % 2) * ((b \div Pow2(j)) % 2)) + DigitAndFrom(a, b, j + 1)
\* the same, tabulated once: DigitAndTable[a + 1][b + 1]
DigitAndRow(a) == MkWord(LAMBDA b : DigitAndFrom(a, b, 0))
DigitAndTable == MkWord(DigitAndRow)
DigitAnd(a, b) == DigitAndTable[a + 1][b + 1]

\* a & b on 64 bits
U64And(a, b) == MkWord(LAMBDA k : DigitAnd(a[k + 1], b[k + 1]))

\* a + b modulo 2^64: the digits of the sum from digit k on, appended to acc;
\* carry comes from digit k - 1
RECURSIVE AddFrom(_, _, _, _, _)
AddFrom(a, b, k, carry, acc) ==
    IF k > 15 THEN acc
    ELSE LET sum == a[k + 1] + b[k + 1] + carry
         IN  AddFrom(a, b, k + 1, sum \div 16, Append(acc, sum % 16))
U64Add(a, b) == AddFrom(a, b, 0, 0, <<>>)

\* a * b modulo 2^64
RECURSIVE ColSum(_, _, _, _)
ColSum(a, b, k, i) ==
    IF i > k THEN 0 ELSE a[i + 1] * b[k - i + 1] + ColSum(a, b, k, i + 1)
RECURSIVE MulCarry(_, _, _)
MulCarry(a, b, k) ==
    IF k = 0 THEN 0 ELSE (ColSum(a, b, k - 1, 0) + MulCarry(a, b, k - 1)) \div 16
U64Mul(a, b) == MkWord(LAMBDA k : (ColSum(a, b, k, 0) + MulCarry(a, b, k)) % 16)

\* --------------------------------------------------------------- resizing
\* detail::get_nearest_power_of_two: the smallest power of two >= capacity
RECURSIVE PowerOfTwoFrom(_, _)
PowerOfTwoFrom(capacity, p) == IF p >= capacity THEN p ELSE PowerOfTwoFrom(capacity, 2 * p)
get_nearest_power_of_two(capacity) == PowerOfTwoFrom(capacity, 1)

resize_leaving_garbage(table, n) ==
    [s \in 1..n |-> IF s <= Len(table) THEN table[s] ELSE U64Sevens]

\* std::vector<uint64_t>::resize(n): the first min(n, size()) blocks are kept,
\* blocks appended beyond the old size are value-initialised to 0
resize(table, n) ==
    [s \in 1..n |-> IF s <= Len(table) THEN table[s] ELSE U64Zero]

change_capacity_rejecting_negative(table, size, capacity) ==
    IF capacity < 0
    THEN [table |-> table, size |-> size, err |-> "invalid_argument"]
    ELSE [table |-> resize(table, get_nearest_power_of_two(capacity)),
          size |-> 0, err |-> "none"]

change_capacity_unrounded(table, size, capacity) ==
    IF capacity <= 0
    THEN [table |-> table, size |-> size, err |-> "invalid_argument"]
    ELSE [table |-> resize(table, capacity), size |-> 0, err |-> "none"]

\* if(capacity <= 0) throw std::invalid_argument(...);
\* m_table.resize(detail::get_nearest_power_of_two(capacity)); m_size = 0
change_capacity(table, size, capacity) ==
    IF capacity <= 0
    THEN [table |-> table, size |-> size, err |-> "invalid_argument"]
    ELSE [table |-> resize(table, get_nearest_power_of_two(capacity)),
          size |-> 0, err |-> "none"]

\* ---------------------------------------------------------- the addressing
SEEDS ==
    << U64FromHex(<<12, 3, 10, 5, 12, 8, 5, 12, 9, 7, 12, 11, 3, 1, 2, 7>>),
       U64FromHex(<<11, 4, 9, 2, 11, 6, 6, 15, 11, 14, 9, 8, 15, 2, 7, 3>>),
       U64FromHex(<<9, 10, 14, 1, 6, 10, 3, 11, 2, 15, 9, 0, 4, 0, 4, 15>>),
       U64FromHex(<<12, 11, 15, 2, 9, 12, 14, 4, 8, 4, 2, 2, 2, 3, 2, 5>>) >>

\* h = SEEDS[counter_index] * hash; h += h >> 32; h & (size - 1)
TableIndex(size, hash, counter_index) ==
    LET h0 == U64Mul(SEEDS[counter_index + 1], U64FromNat(hash))
        h  == U64Add(h0, U64Shr(h0, 32))
    IN  U64ToInt(U64And(h, U64FromNat(size - 1)))

\* the table lengths the capacities lead to, and the table indexes of the
\* modelled elements for each of them, tabulated once
Sizes == {get_nearest_power_of_two(capacity) : capacity \in 0..MaxCapacity}
TableIndexRow(size, hash) ==
    <<TableIndex(size, hash, 0), TableIndex(size, hash, 1),
      TableIndex(size, hash, 2), TableIndex(size, hash, 3)>>
Tabulate(F(_, _)) == [size \in Sizes |-> [hash \in Hashes |-> F(size, hash)]]
TableIndexes == Tabulate(TableIndexRow)

get_table_index(table, hash, counter_index) ==
    TableIndexes[Len(table)][hash][counter_index + 1]

\* (hash & 3) << 2
get_offset_multiplier(hash) == (hash % 4) * 4

get_counter_offset_ignoring_index(hash, counter_index) ==
    get_offset_multiplier(hash) * 4

\* (get_offset_multiplier(hash) + counter_index) << 2
get_counter_offset(hash, counter_index) ==
    (get_offset_multiplier(hash) + counter_index) * 4

\* (m_table[index] >> offset) & 0xfL
get_count(table, hash, counter_index) ==
    LET index  == get_table_index(table, hash, counter_index)
        offset == get_counter_offset(hash, counter_index)
    IN  U64ToInt(U64And(U64Shr(table[index + 1], offset), U64Fifteen))

\* unsigned(-1) >> 1
IntMax == 2147483647

\* for(i = 0; i < 4; ++i) frequency = std::min(frequency, get_count(hash, i))
RECURSIVE FrequencyFrom(_, _, _, _)
FrequencyFrom(table, hash, i, frequency) ==
    IF i >= 4 THEN frequency
    ELSE FrequencyFrom(table, hash, i + 1, Min(frequency, get_count(table, hash, i)))

get_frequency(table, hash) == FrequencyFrom(table, hash, 0, IntMax)

has_nonnegative(table, hash) == get_frequency(table, hash) >= 0

\* get_frequency(t) > 0
has(table, hash) == get_frequency(table, hash) > 0

\* ------------------------------------------------------------- increments
\* mask = 0xfL << offset; (m_table[table_index] & mask) != mask
can_increment_counter(table, table_index, offset) ==
    LET mask == U64Shl(U64Fifteen, offset)
    IN  U64And(table[table_index + 1], mask) # mask

try_increment_at_unchecked(table, hash, counter_index) ==
    LET table_index == get_table_index(table, hash, counter_index)
        offset      == get_counter_offset(hash, counter_index)
    IN  [table |-> [table EXCEPT ![table_index + 1] = U64Add(@, U64Shl(U64One, offset))],
         added |-> TRUE]

\* m_table[table_index] += 1L << offset, when the counter is below 15
try_increment_at(table, hash, counter_index) ==
    LET table_index == get_table_index(table, hash, counter_index)
        offset      == get_counter_offset(hash, counter_index)
    IN  IF can_increment_counter(table, table_index, offset)
        THEN [table |-> [table EXCEPT ![table_index + 1] = U64Add(@, U64Shl(U64One, offset))],
              added |-> TRUE]
        ELSE [table |-> table, added |-> FALSE]

RECURSIVE IncrementFrom_short_circuit(_, _, _, _)
IncrementFrom_short_circuit(table, hash, i, was_added) ==
    IF i >= 4 \/ was_added THEN [table |-> table, added |-> was_added]
    ELSE LET r == try_increment_at(table, hash, i)
         IN  IncrementFrom_short_circuit(r.table, hash, i + 1, was_added \/ r.added)

\* for(i = 0; i < 4; ++i) was_added |= try_increment_at(hash, i)
RECURSIVE IncrementFrom(_, _, _, _)
IncrementFrom(table, hash, i, was_added) ==
    IF i >= 4 THEN [table |-> table, added |-> was_added]
    ELSE LET r == try_increment_at(table, hash, i)
         IN  IncrementFrom(r.table, hash, i + 1, was_added \/ r.added)

\* ------------------------------------------------------------------ aging
halve_unmasked(counters) == U64Shr(counters, 1)

\* counters = (counters >> 1) & 0x7777777777777777L
halve(counters) == U64And(U64Shr(counters, 1), U64Sevens)

\* m_table.size() * 10
get_sampling_size(table) == Len(table) * 10

reset_keeping_size(table, size) ==
    [table |-> [s \in 1..Len(table) |-> halve(table[s])], size |-> size]

reset_zeroing_size(table, size) ==
    [table |-> [s \in 1..Len(table) |-> halve(table[s])], size |-> 0]

\* for(auto& counters : m_table) halve(counters); m_size /= 2
reset(table, size) ==
    [table |-> [s \in 1..Len(table) |-> halve(table[s])], size |-> size \div 2]

record_access_aging_at_half(table, size, hash) ==
    LET inc == IncrementFrom(table, hash, 0, FALSE)
        old == reset(inc.table, size + 1)
    IN  IF inc.added /\ (size + 1 = get_sampling_size(inc.table) \div 2)
        THEN [table |-> old.table, size |-> old.size, added |-> TRUE, aged |-> TRUE]
        ELSE [table |-> inc.table, size |-> IF inc.added THEN size + 1 ELSE size,
              added |-> inc.added, aged |-> FALSE]

record_access_counting_every_call(table, size, hash) ==
    LET inc == IncrementFrom(table, hash, 0, FALSE)
        old == reset(inc.table, size + 1)
    IN  IF size + 1 = get_sampling_size(inc.table)
        THEN [table |-> old.table, size |-> old.size, added |-> TRUE, aged |-> TRUE]
        ELSE [table |-> inc.table, size |-> size + 1, added |-> TRUE, aged |-> FALSE]

record_access_halving_first(table, size, hash) ==
    LET inc == IncrementFrom(table, hash, 0, FALSE)
        old == reset(table, size + 1)
    IN  IF inc.added /\ (size + 1 = get_sampling_size(inc.table))
        THEN [table |-> IncrementFrom(old.table, hash, 0, FALSE).table,
              size |-> old.size, added |-> TRUE, aged |-> TRUE]
        ELSE [table |-> inc.table, size |-> IF inc.added THEN size + 1 ELSE size,
              added |-> inc.added, aged |-> FALSE]

\* the four increments, then if(was_added && (++m_size == get_sampling_size())) reset()
record_access(table, size, hash) ==
    LET inc == IncrementFrom(table, hash, 0, FALSE)
        old == reset(inc.table, size + 1)
    IN  IF inc.added /\ (size + 1 = get_sampling_size(inc.table))
        THEN [table |-> old.table, size |-> old.size, added |-> TRUE, aged |-> TRUE]
        ELSE [table |-> inc.table, size |-> IF inc.added THEN size + 1 ELSE size,
              added |-> inc.added, aged |-> FALSE]

\* ------------------------------------------------------------------ state
VARIABLES
    alive,       \* a FrequencySketch object exists (its constructor returned)
    m_table,     \* std::vector<uint64_t> m_table
    m_size,      \* int m_size
    lastOp,      \* the member function called last
    lastArg,     \* its argument: a capacity or the hash of an element
    err,         \* the exception the last call threw, or "none"
    result,      \* the value the last call returned, or "void"
    agedAt,      \* 0, or: the last call ran reset() on its sinceCount-th counted call
    sinceCount,  \* record_access calls that incremented a counter since the
                 \* constructor, the last successful change_capacity or the last reset()
    agings,      \* reset() passes since the constructor or the last successful change_capacity
    recorded,    \* per hash: record_access calls since the constructor, the last
                 \* successful change_capacity or the last reset(), up to MaxRecorded
    fresh,       \* no successful change_capacity since the constructor
    calls,       \* record_access calls since the constructor
    tick         \* flips with every call of record_access in a sequence of
                 \* calls that never ends: it tells a call that changes
                 \* nothing from no call

vars == <<alive, m_table, m_size, lastOp, lastArg, err, result, agedAt, sinceCount,
          agings, recorded, fresh, calls, tick>>

NoneRecorded == [h \in Hashes |-> 0]

\* explicit FrequencySketch(int capacity) { change_capacity(capacity); }
\* m_table starts empty; an exception leaves no object behind
Constructed(capacity) ==
    LET r == change_capacity(<<>>, 0, capacity)
    IN  [alive |-> r.err = "none", table |-> r.table, size |-> r.size, err |-> r.err]

Init ==
    \E capacity \in Capacities :
        /\ alive = Constructed(capacity).alive
        /\ m_table = Constructed(capacity).table
        /\ m_size = Constructed(capacity).size
        /\ err = Constructed(capacity).err
        /\ lastOp = "construct"
        /\ lastArg = capacity
        /\ result = "void"
        /\ agedAt = 0
        /\ sinceCount = 0
        /\ agings = 0
        /\ recorded = NoneRecorded
        /\ fresh = TRUE
        /\ calls = 0
        /\ tick = FALSE

\* a constructor call after one that threw
Construct(capacity) ==
    /\ ~alive
    /\ alive' = Constructed(capacity).alive
    /\ m_table' = Constructed(capacity).table
    /\ m_size' = Constructed(capacity).size
    /\ err' = Constructed(capacity).err
    /\ lastOp' = "construct"
    /\ lastArg' = capacity
    /\ result' = "void"
    /\ agedAt' = 0
    /\ sinceCount' = 0
    /\ agings' = 0
    /\ recorded' = NoneRecorded
    /\ fresh' = TRUE
    /\ calls' = 0
    /\ tick' = tick

ChangeCapacity(capacity) ==
    /\ alive
    /\ capacity > 0 => calls <= MaxCallsBeforeResize
    /\ \E r \in {change_capacity(m_table, m_size, capacity)} :
           /\ m_table' = r.table
           /\ m_size' = r.size
           /\ err' = r.err
           /\ IF r.err = "none"
              THEN /\ sinceCount' = 0
                   /\ agings' = 0
                   /\ recorded' = NoneRecorded
                   /\ fresh' = FALSE
              ELSE UNCHANGED <<sinceCount, agings, recorded, fresh>>
    /\ lastOp' = "change_capacity"
    /\ lastArg' = capacity
    /\ result' = "void"
    /\ agedAt' = 0
    /\ UNCHANGED <<alive, calls, tick>>

RecordAccess(hash) ==
    /\ alive
    /\ calls < MaxCalls
    /\ calls' = calls + 1
    /\ \E r \in {record_access(m_table, m_size, hash)} :
           /\ m_table' = r.table
           /\ m_size' = r.size
           /\ agedAt' = IF r.aged THEN sinceCount + 1 ELSE 0
           /\ sinceCount' = IF r.aged THEN 0
                            ELSE IF r.added THEN sinceCount + 1 ELSE sinceCount
           /\ agings' = IF r.aged THEN agings + 1 ELSE agings
           /\ recorded' = IF r.aged THEN NoneRecorded
                          ELSE [recorded EXCEPT ![hash] = Min(@ + 1, MaxRecorded)]
    /\ lastOp' = "record_access"
    /\ lastArg' = hash
    /\ err' = "none"
    /\ result' = "void"
    /\ UNCHANGED <<alive, fresh, tick>>

GetFrequency(hash) ==
    /\ alive
    /\ result' = get_frequency(m_table, hash)
    /\ lastOp' = "get_frequency"
    /\ lastArg' = hash
    /\ err' = "none"
    /\ agedAt' = 0
    /\ UNCHANGED <<alive, m_table, m_size, sinceCount, agings, recorded, fresh, calls, tick>>

Has(hash) ==
    /\ alive
    /\ result' = has(m_table, hash)
    /\ lastOp' = "has"
    /\ lastArg' = hash
    /\ err' = "none"
    /\ agedAt' = 0
    /\ UNCHANGED <<alive, m_table, m_size, sinceCount, agings, recorded, fresh, calls, tick>>

Next ==
    \/ \E capacity \in Capacities : Construct(capacity)
    \/ \E capacity \in Capacities : ChangeCapacity(capacity)
    \/ \E hash \in Hashes : RecordAccess(hash)
    \/ \E hash \in Hashes : GetFrequency(hash)
    \/ \E hash \in Hashes : Has(hash)

Spec == Init /\ [][Next]_vars

\* ------------------------------------------ record_access called without end
\* a call of record_access in a sequence of calls that never ends; the tallies
\* of calls kept for the bounded exploration (calls, agings, recorded) stay
\* where they are, so that the states are finitely many
RecordAccessForever(hash) ==
    /\ alive
    /\ \E r \in {record_access(m_table, m_size, hash)} :
           /\ m_table' = r.table
           /\ m_size' = r.size
           /\ agedAt' = IF r.aged THEN sinceCount + 1 ELSE 0
           /\ sinceCount' = IF r.aged THEN 0
                            ELSE IF r.added THEN sinceCount + 1 ELSE sinceCount
    /\ lastOp' = "record_access"
    /\ lastArg' = hash
    /\ err' = "none"
    /\ result' = "void"
    /\ tick' = ~tick
    /\ UNCHANGED <<alive, fresh, calls, agings, recorded>>

InitLive == Init /\ alive

NextLive == \E hash \in Hashes : RecordAccessForever(hash)

\* the caller goes on calling record_access: a call is always possible on a
\* sketch and every call flips tick, so that the steps of Calling are the
\* steps of NextLive and the fairness is that calls are made without end
Calling == alive /\ tick' = ~tick
SpecLive == InitLive /\ [][NextLive]_vars /\ WF_tick(Calling)

\* ------------------------------------------------- the addressing on its own
AddrCapacities == 1..MaxAddrCapacity
AddrHashes == (0..MaxAddrHash) \cup {IntMax - h : h \in 0..MaxAddrHash}

InitAddr ==
    \E capacity \in AddrCapacities :
        /\ alive = Constructed(capacity).alive
        /\ m_table = Constructed(capacity).table
        /\ m_size = Constructed(capacity).size
        /\ err = Constructed(capacity).err
        /\ lastOp = "construct"
        /\ lastArg = capacity
        /\ result = "void"
        /\ agedAt = 0
        /\ sinceCount = 0
        /\ agings = 0
        /\ recorded = NoneRecorded
        /\ fresh = TRUE
        /\ calls = 0
        /\ tick = FALSE

\* get_table_index(hash, i) and get_counter_offset(hash, i) for i = 0..3, as
\* get_count and try_increment_at call them
LocateCounters(hash) ==
    /\ alive
    /\ result' = [i \in 1..4 |->
                     [index  |-> TableIndex(Len(m_table), hash, i - 1),
                      offset |-> get_counter_offset(hash, i - 1)]]
    /\ lastOp' = "locate"
    /\ lastArg' = hash
    /\ err' = "none"
    /\ agedAt' = 0
    /\ UNCHANGED <<alive, m_table, m_size, sinceCount, agings, recorded, fresh, calls, tick>>

NextAddr == \E hash \in AddrHashes : LocateCounters(hash)

SpecAddr == InitAddr /\ [][NextAddr]_vars

TypeOK ==
    /\ alive \in BOOLEAN
    /\ tick \in BOOLEAN
    /\ m_size \in Nat
    /\ \A s \in 1..Len(m_table) : m_table[s] \in [1..16 -> Digits]

\* ----------------------------------------------------------------- claims
TableLength == Len(m_table)
Slots == 1..Len(m_table)
SuccessfulResize == lastOp = "change_capacity" /\ err = "none"
AllCountersZero == \A s \in Slots : m_table[s] = U64Zero

\* C1: after a successful change_capacity every counter of the table is 0 and
\* get_frequency is 0 for every element, whatever the old and new lengths.
C1_ResizeClears ==
    SuccessfulResize =>
        /\ AllCountersZero
        /\ \A e \in Hashes : get_frequency(m_table, e) = 0

\* C2: get_frequency is in 0..15 for every element, every counter is in 0..15,
\* and a counter holding 15 holds 15 after a step, or 7 when the step ran an
\* aging pass (it never wraps to 0); change_capacity keeps the blocks it keeps.
C2_Estimates ==
    alive => /\ \A e \in Hashes : get_frequency(m_table, e) \in 0..15
             /\ \A s \in Slots : \A k \in 1..16 : m_table[s][k] \in 0..15
C2_NoWrap ==
    \A s \in Slots : \A k \in 1..16 :
        (m_table[s][k] = 15 /\ s <= Len(m_table')) =>
            m_table'[s][k] = (IF agedAt' > 0 THEN 7 ELSE 15)
C2_Saturation == []C2_Estimates /\ [][C2_NoWrap]_vars
\* record_access was called on an element whose four counters already held 15
C2_Witness ==
    /\ lastOp = "record_access"
    /\ recorded[lastArg] = 16
    /\ get_frequency(m_table, lastArg) = 15

\* C3 as claimed: every aging pass is triggered by the (table_length * 10)-th
\* counted record_access call since the constructor or the previous pass.
C3_AgingAtTenfold ==
    agedAt > 0 => agedAt = TableLength * 10

\* C3 as amended: the first aging pass after the constructor or a successful
\* change_capacity is triggered by the (table_length * 10)-th record_access
\* call that increments a counter, every later pass by the (table_length * 5)-th
\* such call after the previous pass, and no call before that triggers one; the
\* pass leaves the tally at table_length * 5.
C3_AgingSchedule ==
    alive =>
        /\ agedAt > 0 =>
              /\ agedAt = (IF agings = 1 THEN TableLength * 10 ELSE TableLength * 5)
              /\ m_size = TableLength * 5
        /\ sinceCount < (IF agings = 0 THEN TableLength * 10 ELSE TableLength * 5)
\* a second aging pass has just run
C3_Witness == agedAt > 0 /\ agings = 2

\* C4: on a sketch as constructed, after k <= 15 calls of record_access on one
\* element, none on another and no aging pass, get_frequency of it is k.
C4_ExactCount ==
    \A e \in Hashes :
        ( /\ alive /\ fresh /\ agings = 0
          /\ recorded[e] <= 15
          /\ \A f \in Hashes \ {e} : recorded[f] = 0 )
        => get_frequency(m_table, e) = recorded[e]
C4_Witness ==
    /\ alive /\ fresh /\ agings = 0
    /\ lastOp = "record_access" /\ lastArg = 8
    /\ recorded[8] = 15 /\ recorded[0] = 0

\* C5: while no aging pass has run since the constructor or the last successful
\* change_capacity, get_frequency(e) is at least min(15, calls of
\* record_access(e)) for every element, whatever else was recorded.
C5_NoUnderestimate ==
    (alive /\ agings = 0) =>
        \A e \in Hashes : get_frequency(m_table, e) >= Min(15, recorded[e])
\* both elements were recorded and 8, which shares counters with 0, is overestimated
C5_Witness ==
    /\ alive /\ agings = 0
    /\ recorded[0] > 0 /\ recorded[8] > 0
    /\ get_frequency(m_table, 8) > recorded[8]

\* C6: an aging pass replaces every counter of every block by the floor of
\* its half: after the call that ran it, each counter holds half of what it
\* held once the call's four increments were made, whatever its neighbours held.
C6_Halved ==
    agedAt' > 0 =>
        \E before \in {IncrementFrom(m_table, lastArg', 0, FALSE).table} :
            /\ Len(m_table') = Len(before)
            /\ \A s \in 1..Len(before) : \A k \in 1..16 :
                   m_table'[s][k] = before[s][k] \div 2
C6_AgingHalvesEveryCounter == [][C6_Halved]_vars
\* an aging pass has just halved an odd counter whose upper neighbour was odd
\* too: 7 below 15 became 3 below 7
C6_Witness ==
    /\ agedAt > 0
    /\ \E s \in Slots : \E k \in 1..15 : m_table[s][k] = 3 /\ m_table[s][k + 1] = 7

\* C7: between calls, 0 <= tally < table_length * 10.
C7_TallyBelowThreshold ==
    alive => (0 <= m_size /\ m_size < get_sampling_size(m_table))
\* an aging pass has just run on a table that was resized before
C7_Witness == alive /\ ~fresh /\ agedAt > 0 /\ m_size = TableLength * 5

\* C8: right after a successful construction get_frequency is 0 and has is
\* false for every element, and the tally is 0.
C8_EmptyAfterConstruction ==
    (lastOp = "construct" /\ alive) =>
        /\ m_size = 0
        /\ \A e \in Hashes : get_frequency(m_table, e) = 0 /\ ~has(m_table, e)
C8_Witness == lastOp = "construct" /\ alive /\ lastArg = 3 /\ TableLength = 4

\* C9: a step that neither runs an aging pass nor is a successful
\* change_capacity lowers get_frequency of no element.
C9_NoDecrease ==
    (alive /\ alive' /\ agedAt' = 0 /\ ~SuccessfulResize' /\ m_table' # m_table) =>
        \A f \in Hashes : get_frequency(m_table', f) >= get_frequency(m_table, f)
C9_Monotone == [][C9_NoDecrease]_vars
\* record_access(0) was called with the counters of 0 at 15, two of which 8
\* shares, after 8 was recorded once
C9_Witness ==
    /\ lastOp = "record_access" /\ lastArg = 0 /\ agedAt = 0
    /\ recorded[0] = 16 /\ recorded[8] = 1
    /\ get_frequency(m_table, 0) = 15 /\ get_frequency(m_table, 8) = 1

\* C10: the constructor and change_capacity throw invalid_argument exactly when
\* the capacity is <= 0, no other call throws, a constructor that throws leaves
\* no object, and a change_capacity that throws leaves the table and the tally
\* as they were.
C10_ThrowsExactly ==
    /\ (err = "invalid_argument") <=>
           (lastOp \in {"construct", "change_capacity"} /\ lastArg <= 0)
    /\ err \in {"none", "invalid_argument"}
    /\ (lastOp = "construct" /\ err # "none") => ~alive
C10_FailureKeepsState ==
    (lastOp' = "change_capacity" /\ err' # "none") =>
        /\ alive /\ alive'
        /\ m_table' = m_table
        /\ m_size' = m_size
C10_InvalidCapacity == []C10_ThrowsExactly /\ [][C10_FailureKeepsState]_vars
\* change_capacity threw on a sketch with recorded accesses
C10_Witness ==
    /\ lastOp = "change_capacity" /\ err = "invalid_argument" /\ lastArg = 0
    /\ m_size > 0 /\ ~AllCountersZero

\* C11: get_frequency and has change neither a counter, nor the table length,
\* nor the tally; a query repeated right after itself returns the same value;
\* get_frequency returns the least of the element's four counters and has
\* returns whether that is above 0.
LeastCount(e) ==
    CHOOSE c \in {get_count(m_table, e, i) : i \in 0..3} :
        \A i \in 0..3 : c <= get_count(m_table, e, i)
IsQuery(op) == op \in {"get_frequency", "has"}
C11_QueryResult ==
    /\ lastOp = "get_frequency" => result = LeastCount(lastArg)
    /\ lastOp = "has" => result = (LeastCount(lastArg) > 0)
C11_QueryFrame ==
    IsQuery(lastOp') =>
        /\ m_table' = m_table
        /\ m_size' = m_size
        /\ (lastOp = lastOp' /\ lastArg = lastArg') => result' = result
C11_PureQueries == []C11_QueryResult /\ [][C11_QueryFrame]_vars
\* has returned false for an element one of whose counters is above 0
C11_Witness ==
    /\ lastOp = "has" /\ result = FALSE
    /\ \E i \in 0..3 : get_count(m_table, lastArg, i) > 0

\* C12: after a successful constructor or change_capacity(c) the table length
\* is the least power of two >= c and the tally is 0; the table length of a
\* sketch is a power of two, and only change_capacity changes it.
PowersOfTwo == {2 ^ n : n \in 0..(MaxCapacity + 1)}
C12_LengthIsPowerOfTwo ==
    /\ alive => TableLength \in PowersOfTwo
    /\ (lastOp \in {"construct", "change_capacity"} /\ err = "none") =>
           /\ TableLength \in PowersOfTwo
           /\ TableLength >= lastArg
           /\ \A p \in PowersOfTwo : p >= lastArg => TableLength <= p
           /\ m_size = 0
C12_LengthFrame ==
    (alive /\ Len(m_table') # Len(m_table)) => lastOp' = "change_capacity"
C12_TableLength == []C12_LengthIsPowerOfTwo /\ [][C12_LengthFrame]_vars
\* change_capacity(3) has grown a table of one block, whose counters were in
\* use, to four blocks
C12_Witness ==
    /\ SuccessfulResize /\ lastArg = 3 /\ TableLength = 4
    /\ m_table[1] # U64Zero

\* the step is a call of record_access; the counters its element addresses,
\* each as <<block, digit>> counted from 1
RecordStep == lastOp' = "record_access" /\ calls' = calls + 1
CounterAt(hash, i) ==
    <<get_table_index(m_table, hash, i) + 1, (get_counter_offset(hash, i) \div 4) + 1>>
CountersOf(hash) == {CounterAt(hash, i) : i \in 0..3}
Positions == {<<s, k>> : s \in Slots, k \in 1..16}

\* C14: a record_access(e) call with at least one of e's four counters below 15
\* adds exactly 1 to the tally, however many of the four it increments (and an
\* aging pass then runs only if that made the tally table_length * 10); with
\* all four at 15 it changes no counter and not the tally and runs no aging.
C14_Counted ==
    RecordStep =>
        IF \A p \in CountersOf(lastArg') : m_table[p[1]][p[2]] = 15
        THEN m_table' = m_table /\ m_size' = m_size /\ agedAt' = 0
        ELSE IF agedAt' = 0
             THEN m_size' = m_size + 1
             ELSE m_size + 1 = TableLength * 10 /\ m_size' = (m_size + 1) \div 2
C15_OnlyOwn ==
    (RecordStep /\ agedAt' = 0) =>
        /\ Len(m_table') = Len(m_table)
        /\ \A p \in Positions :
               m_table'[p[1]][p[2]] =
                   (IF p \in CountersOf(lastArg')
                    THEN Min(m_table[p[1]][p[2]] + 1, 15)
                    ELSE m_table[p[1]][p[2]])
C15_IncrementsOnlyOwnCounters == [][C15_OnlyOwn]_vars
\* record_access(0) on two blocks after fifteen calls on 8: the two counters
\* that 0 shares with 8 stayed at 15 next to the two that went from 0 to 1
C15_Witness ==
    /\ lastOp = "record_access" /\ lastArg = 0 /\ agedAt = 0
    /\ TableLength = 2
    /\ m_table[1][1] = 15 /\ m_table[1][2] = 1 /\ m_table[1][3] = 1 /\ m_table[1][4] = 15
    /\ m_table[2][2] = 15 /\ m_table[2][3] = 15

\* C16: the record_access call that runs an aging pass leaves the tally at
\* half, rounded down, of what the call made it: (table_length * 10) / 2,
\* which is table_length * 5.
C16_TallyAfter ==
    agedAt > 0 =>
        /\ m_size = (TableLength * 10) \div 2
        /\ m_size = TableLength * 5
C16_TallyStep ==
    agedAt' > 0 => m_size' = (m_size + 1) \div 2
C16_AgingHalvesTally == []C16_TallyAfter /\ [][C16_TallyStep]_vars
\* the first aging pass on two blocks has just run
C16_Witness ==
    /\ lastOp = "record_access" /\ agedAt = 20 /\ agings = 1
    /\ TableLength = 2 /\ m_size = 10

\* C17: in the record_access(e) call that runs an aging pass, each counter of
\* e that held c holds (min(c + 1, 15)) / 2 afterwards and every other counter
\* that held d holds d / 2, both rounded down.
C17_Order ==
    (RecordStep /\ agedAt' > 0) =>
        /\ Len(m_table') = Len(m_table)
        /\ \A p \in Positions :
               m_table'[p[1]][p[2]] =
                   (IF p \in CountersOf(lastArg')
                    THEN Min(m_table[p[1]][p[2]] + 1, 15) \div 2
                    ELSE m_table[p[1]][p[2]] \div 2)
C17_IncrementsBeforeHalving == [][C17_Order]_vars
\* the first aging pass on two blocks, run by the eleventh call on 0 after
\* nine calls on 8: the own counters of 0 went from 10 to 11 to 5 (not to 6),
\* those of 8 from 9 to 4, the shared ones from 15 to 7
C17_Witness ==
    /\ lastOp = "record_access" /\ lastArg = 0 /\ agedAt > 0 /\ agings = 1 /\ fresh
    /\ TableLength = 2
    /\ m_table[1][1] = 7 /\ m_table[1][2] = 5 /\ m_table[2][2] = 4

\* C18: for every hash and table length, the counter of seed index i is at bit
\* offset ((hash & 3) * 4 + i) * 4, a multiple of 4 in 0..60 inside the 16-bit
\* part that the two low bits of the hash select, in a block 0..length - 1;
\* the four counters of an element are pairwise distinct, also where two
\* seeds select the same block.
C18_DistinctCounters ==
    lastOp = "locate" =>
        /\ \A i \in 1..4 :
               /\ result[i].offset = ((lastArg % 4) * 4 + (i - 1)) * 4
               /\ result[i].offset \in 0..60
               /\ result[i].offset % 4 = 0
               /\ result[i].offset \div 16 = lastArg % 4
               /\ result[i].index \in 0..(TableLength - 1)
        /\ \A i \in 1..4 : \A j \in 1..4 : i # j => result[i] # result[j]
\* on eight blocks two seeds select the same block for a hash whose low bits
\* select the highest 16-bit part
C18_Witness ==
    /\ lastOp = "locate" /\ TableLength = 8 /\ lastArg % 4 = 3
    /\ \E i \in 1..4 : \E j \in 1..4 : i # j /\ result[i].index = result[j].index

\* C13: in every sequence of record_access calls that never ends, whenever
\* some counter holds 15, an aging pass eventually runs and leaves it below 15.
SomeCounterAt15 == \E p \in Positions : m_table[p[1]][p[2]] = 15
C13_NoPermanentSaturation ==
    SomeCounterAt15 ~> (agedAt > 0 /\ ~SomeCounterAt15)

====
